---- MODULE Spec2Model ----
(***************************************************************************)
(* Model of clients/python/client.py: the volume-sync client.              *)
(*                                                                         *)
(* Tasks of the asyncio event loop: main (the connection supervisor), and  *)
(* per established connection s a volume_watcher, a sender and a receiver. *)
(* A step of the model is what one task runs between two suspension points *)
(* (await of connect, sleep, queue.get, ws.send, the inbound stream).      *)
(* get_volume and set_volume contain no await that suspends, so they run   *)
(* inside the step of the task that calls them.                            *)
(*                                                                         *)
(* The environment is: the relay (accepts or rejects a connection, sends   *)
(* frames, closes the connection), the user (changes the local volume,     *)
(* interrupts the process) and the local audio command (may fail).         *)
(***************************************************************************)
EXTENDS Integers, Sequences, FiniteSets

\* ---------------------------------------------------------------- bounds
MaxSessions == 2    \* connections established in one run
MaxFrames == 2      \* frames the relay sends in one run
MaxChanges == 2     \* volume changes made by the user in one run
MaxPolls == 2       \* polls (after the initial read) made by all watchers

\* ------------------------------------------------------ program constants
VOLUME_MIN == 0
VOLUME_MAX == 100
max_retries == 5
None == -1          \* Python's None, where the code holds Optional[int]

Sessions == 1..MaxSessions

\* sys.platform: one supported platform and one unsupported one.
Platforms == {"linux", "win32"}

\* The host's volume is 30 when the process starts, and these are the levels
\* the user sets it to.  150 is a level above VOLUME_MAX (amixer prints a
\* boosted level as e.g. [150%], which \d+ matches).
InitialVolume == 30
UserVolumes == {45, 150}

\* HTTP statuses of a rejected handshake.
StatusCodes == {403, 500, 503}

\* Inbound frames, by what json.loads makes of them.
Frames ==
    { [json |-> "invalid"],                                   \* not JSON
      [json |-> "array"],                                     \* JSON, not an object
      [json |-> "object", type |-> "ping"],                   \* unknown type
      [json |-> "object", type |-> "clients", clients |-> 3],
      [json |-> "object", type |-> "clients"],                \* field missing
      [json |-> "object", type |-> "volume", volume |-> 42],
      [json |-> "object", type |-> "volume", volume |-> 100],
      [json |-> "object", type |-> "volume", volume |-> 101],
      [json |-> "object", type |-> "volume", volume |-> 0 - 1],
      [json |-> "object", type |-> "volume"] }                \* field missing

VARIABLES
    platform,             \* sys.platform
    localVolume,          \* the host's output volume
    mainPc,               \* where main is: loop, sleep, connect, prime, session, exit
    connection_attempts,  \* main's counter
    wait_time,            \* main's wait_time
    exitCode,             \* the process's exit status, None while running
    nConn,                \* connections established so far; the latest is nConn
    ws,                   \* per connection: none, open, closedOK, closedError
    inbox,                \* frames the latest connection received, not yet iterated
    senderPc,             \* per connection: none, waiting, done
    receiverPc,           \* per connection: none, running, done, raised
    watcherPc,            \* per connection: none, start, polling, returned
    last_volume,          \* per watcher: its last_volume
    send_queue,           \* per connection: the asyncio.Queue made for it
    client_count,         \* per receiver: its client_count
    \* what the run has done so far (observations, no program state)
    sent,                 \* per connection: the messages written to it, in order
    put,                  \* per watcher: the values it has put on its queue
    reads,                \* per watcher: the results of its get_volume calls
    received,             \* per receiver: the frames it took from the transport
    setCalls,             \* the calls of set_volume, in order
    lastDelay,            \* seconds slept before the latest connection attempt
    failsInRow,           \* connection attempts failed since the last success
    lastCause,            \* how the latest attempt or session ended
    nFrames, nChanges, nPolls

vars == << platform, localVolume, mainPc, connection_attempts, wait_time,
           exitCode, nConn, ws, inbox, senderPc, receiverPc, watcherPc,
           last_volume, send_queue, client_count, sent, put, reads, received,
           setCalls, lastDelay, failsInRow, lastCause, nFrames, nChanges,
           nPolls >>

mainVars == << mainPc, connection_attempts, wait_time, exitCode >>
connVars == << nConn, ws, inbox >>
taskVars == << senderPc, receiverPc, watcherPc >>
watchVars == << last_volume, put, reads, nPolls >>
recvVars == << client_count, received, setCalls >>
envObs == << nFrames, nChanges >>

\* ---------------------------------------------------------------- helpers
Min(a, b) == IF a <= b THEN a ELSE b

\* dict.get(key): a lookup that ignores the default and yields None.
GetWithoutDefault(data, key, default) ==
    IF key \in DOMAIN data THEN data[key] ELSE None

\* dict.get(key, default)
Get(data, key, default) == IF key \in DOMAIN data THEN data[key] ELSE default

InRange(v) == VOLUME_MIN <= v /\ v <= VOLUME_MAX

\* A backoff computed from the attempt number instead of the retry number.
WaitTimeOffByOne(attempts) == Min(10 * attempts, 30)

\* main: wait_time = min(10 * (connection_attempts - 1), 30)
WaitTime(attempts) == Min(10 * (attempts - 1), 30)

\* The values of the reqVolumeChange messages in a message sequence.
RECURSIVE Reqs(_)
Reqs(msgs) ==
    IF msgs = << >> THEN << >>
    ELSE IF Head(msgs).action = "reqVolumeChange"
         THEN << Head(msgs).volume >> \o Reqs(Tail(msgs))
         ELSE Reqs(Tail(msgs))

\* json.dumps of the three client messages, as the relay parses them.
GetVolumeMsg == [action |-> "getVolume"]
\* A client that asks for the volume twice and never for the peer count.
GetVolumeAgain == [action |-> "getVolume"]
GetCountMsg == [action |-> "getConnectedClientsCount"]
ReqVolumeChangeMsg(volume) == [action |-> "reqVolumeChange", volume |-> volume]

\* get_volume(): the outcomes it can have now.  An unsupported platform
\* raises PlatformNotSupportedError, a VolumeError; on a supported one the
\* command may fail (CalledProcessError, unparsable output: VolumeError).
VolumeErr == 0 - 2
get_volume == IF platform = "linux" THEN {localVolume, VolumeErr} ELSE {VolumeErr}

Init ==
    /\ platform \in Platforms
    /\ localVolume = InitialVolume
    /\ mainPc = "loop"
    /\ connection_attempts = 0
    /\ wait_time = 0
    /\ exitCode = None
    /\ nConn = 0
    /\ ws = [s \in Sessions |-> "none"]
    /\ inbox = << >>
    /\ senderPc = [s \in Sessions |-> "none"]
    /\ receiverPc = [s \in Sessions |-> "none"]
    /\ watcherPc = [s \in Sessions |-> "none"]
    /\ last_volume = [s \in Sessions |-> None]
    /\ send_queue = [s \in Sessions |-> << >>]
    /\ client_count = [s \in Sessions |-> None]
    /\ sent = [s \in Sessions |-> << >>]
    /\ put = [s \in Sessions |-> << >>]
    /\ reads = [s \in Sessions |-> << >>]
    /\ received = [s \in Sessions |-> << >>]
    /\ setCalls = << >>
    /\ lastDelay = 0
    /\ failsInRow = 0
    /\ lastCause = "none"
    /\ nFrames = 0
    /\ nChanges = 0
    /\ nPolls = 0

Running == mainPc # "exit"

\* ------------------------------------------------------------------- main

\* sys.exit(code)
Exit(code) ==
    /\ mainPc' = "exit"
    /\ exitCode' = code

\* A handler that exits on every failure, whatever the counter says.
ExitOnEveryFailure == Exit(1)

\* "if connection_attempts >= max_retries: sys.exit(1)" then "continue":
\* the tail shared by the retryable handlers.
ExitOrContinue ==
    IF connection_attempts >= max_retries
    THEN Exit(1)
    ELSE mainPc' = "loop" /\ exitCode' = exitCode

\* The head of the while loop, up to the sleep or the connect.
MainLoop ==
    /\ mainPc = "loop"
    /\ IF connection_attempts < max_retries
       THEN /\ connection_attempts' = connection_attempts + 1
            /\ exitCode' = exitCode
            /\ IF connection_attempts' > 1
               THEN /\ wait_time' = WaitTime(connection_attempts')
                    /\ mainPc' = "sleep"
                    /\ lastDelay' = lastDelay
               ELSE /\ wait_time' = wait_time
                    /\ mainPc' = "connect"
                    /\ lastDelay' = 0
       ELSE /\ Exit(1)
            /\ UNCHANGED << connection_attempts, wait_time, lastDelay >>
    /\ UNCHANGED << platform, localVolume, connVars, taskVars, watchVars,
                    recvVars, send_queue, sent, failsInRow, lastCause,
                    envObs >>

\* await asyncio.sleep(wait_time) returns.
MainSleep ==
    /\ mainPc = "sleep"
    /\ mainPc' = "connect"
    /\ lastDelay' = wait_time
    /\ UNCHANGED << platform, localVolume, connection_attempts, wait_time,
                    exitCode, connVars, taskVars, watchVars, recvVars,
                    send_queue, sent, failsInRow, lastCause, envObs >>

\* A supervisor that forgets to reset the counter.
AttemptsNotReset(attempts) == attempts

\* "connection_attempts = 0  # Reset on successful connection"
AttemptsAfterConnect(attempts) == 0

\* websockets.connect succeeds: the counter is reset and getVolume is sent
\* (main does not suspend between the two).
ConnectOk ==
    /\ mainPc = "connect"
    /\ nConn < MaxSessions
    /\ nConn' = nConn + 1
    /\ ws' = [ws EXCEPT ![nConn'] = "open"]
    /\ inbox' = << >>
    /\ connection_attempts' = AttemptsAfterConnect(connection_attempts)
    /\ sent' = [sent EXCEPT ![nConn'] = << GetVolumeMsg >>]
    /\ mainPc' = "prime"
    /\ failsInRow' = 0
    /\ lastCause' = "connected"
    /\ UNCHANGED << platform, localVolume, wait_time, exitCode, taskVars,
                    watchVars, recvVars, send_queue, lastDelay, envObs >>

\* websockets.connect raises InvalidURI.
ConnectInvalidURI ==
    /\ mainPc = "connect"
    /\ Exit(1)
    /\ failsInRow' = failsInRow + 1
    /\ lastCause' = "InvalidURI"
    /\ UNCHANGED << platform, localVolume, connection_attempts, wait_time,
                    connVars, taskVars, watchVars, recvVars, send_queue, sent,
                    lastDelay, envObs >>

\* websockets.connect raises InvalidStatus with the given HTTP status.  The
\* 503 branch and the branch of every other status differ in what they log
\* only: each exits when the attempts are used up and continues otherwise.
ConnectInvalidStatus(status_code) ==
    /\ mainPc = "connect"
    /\ IF status_code = 503
       THEN ExitOrContinue
       ELSE ExitOrContinue
    /\ failsInRow' = failsInRow + 1
    /\ lastCause' = IF status_code = 503 THEN "capacity"
                    ELSE IF 400 <= status_code /\ status_code < 500 THEN "rejected4xx"
                    ELSE "rejected5xx"
    /\ UNCHANGED << platform, localVolume, connection_attempts, wait_time,
                    connVars, taskVars, watchVars, recvVars, send_queue, sent,
                    lastDelay, envObs >>

\* websockets.connect raises another exception (OSError, timeout, ...).
ConnectError ==
    /\ mainPc = "connect"
    /\ ExitOrContinue
    /\ failsInRow' = failsInRow + 1
    /\ lastCause' = "network"
    /\ UNCHANGED << platform, localVolume, connection_attempts, wait_time,
                    connVars, taskVars, watchVars, recvVars, send_queue, sent,
                    lastDelay, envObs >>

\* The second priming message, and the start of the session's tasks: a new
\* queue, a new volume_watcher task, and sender and receiver under gather.
\* The local volume main reads in between is only logged, and so is a
\* VolumeError of that read (PlatformNotSupportedError is one).  When the
\* connection has closed meanwhile, ws.send raises ConnectionClosed.
MainPrime ==
    /\ mainPc = "prime"
    /\ IF ws[nConn] = "open"
       THEN /\ sent' = [sent EXCEPT ![nConn] = Append(@, GetCountMsg)]
            /\ send_queue' = [send_queue EXCEPT ![nConn] = << >>]
            /\ watcherPc' = [watcherPc EXCEPT ![nConn] = "start"]
            /\ senderPc' = [senderPc EXCEPT ![nConn] = "waiting"]
            /\ receiverPc' = [receiverPc EXCEPT ![nConn] = "running"]
            /\ mainPc' = "session"
            /\ UNCHANGED << exitCode, lastCause, inbox >>
       ELSE /\ ExitOrContinue
            /\ lastCause' = "closed"
            /\ inbox' = << >>
            /\ UNCHANGED << sent, send_queue, taskVars >>
    /\ UNCHANGED << platform, localVolume, connection_attempts, wait_time,
                    nConn, ws, watchVars, recvVars, lastDelay, failsInRow,
                    envObs >>

\* asyncio.gather returns or raises, and the async-with block is left.
\* gather raises as soon as receiver has raised, without cancelling sender;
\* it returns when both have returned.  sender never raises.
SessionEnd ==
    /\ mainPc = "session"
    /\ receiverPc[nConn] = "raised"
          \/ (receiverPc[nConn] = "done" /\ senderPc[nConn] = "done")
    /\ IF receiverPc[nConn] = "raised"
       THEN /\ ExitOrContinue
            /\ lastCause' = "closed"
       ELSE /\ mainPc' = "loop"
            /\ exitCode' = exitCode
            /\ lastCause' = "ended"
    /\ UNCHANGED << platform, localVolume, connection_attempts, wait_time,
                    connVars, taskVars, watchVars, recvVars, send_queue, sent,
                    lastDelay, failsInRow, envObs >>

\* KeyboardInterrupt.
Interrupt ==
    /\ Running
    /\ Exit(0)
    /\ UNCHANGED << platform, localVolume, connection_attempts, wait_time,
                    connVars, taskVars, watchVars, recvVars, send_queue, sent,
                    lastDelay, failsInRow, lastCause, envObs >>

\* --------------------------------------------------------- volume_watcher

\* A watcher that reports a raised volume only.
ChangedUpwards(current_volume, last) == current_volume > last

\* A watcher that reports every successful read.
ChangedAlways(current_volume, last) == TRUE

\* "if current_volume != last_volume"
Changed(current_volume, last) == current_volume # last

\* The initial read; a VolumeError makes the watcher return.
WatcherStart(s) ==
    /\ Running
    /\ watcherPc[s] = "start"
    /\ \E r \in get_volume :
          /\ reads' = [reads EXCEPT ![s] = Append(@, r)]
          /\ IF r = VolumeErr
             THEN /\ watcherPc' = [watcherPc EXCEPT ![s] = "returned"]
                  /\ UNCHANGED last_volume
             ELSE /\ watcherPc' = [watcherPc EXCEPT ![s] = "polling"]
                  /\ last_volume' = [last_volume EXCEPT ![s] = r]
    /\ UNCHANGED << platform, localVolume, mainVars, connVars, senderPc,
                    receiverPc, put, nPolls, recvVars, send_queue, sent,
                    lastDelay, failsInRow, lastCause, envObs >>

\* One turn of the polling loop, after the sleep.
WatcherPoll(s) ==
    /\ Running
    /\ watcherPc[s] = "polling"
    /\ nPolls < MaxPolls
    /\ nPolls' = nPolls + 1
    /\ \E r \in get_volume :
          /\ reads' = [reads EXCEPT ![s] = Append(@, r)]
          /\ IF r # VolumeErr /\ Changed(r, last_volume[s])
             THEN /\ send_queue' = [send_queue EXCEPT ![s] = Append(@, r)]
                  /\ put' = [put EXCEPT ![s] = Append(@, r)]
                  /\ last_volume' = [last_volume EXCEPT ![s] = r]
             ELSE UNCHANGED << send_queue, put, last_volume >>
    /\ UNCHANGED << platform, localVolume, mainVars, connVars, taskVars,
                    recvVars, sent, lastDelay, failsInRow, lastCause, envObs >>

\* ----------------------------------------------------------------- sender

\* A queue that hands out its newest item.
QueueGetNewest(queue) == queue[Len(queue)]

\* asyncio.Queue.get: the oldest item, and the queue without it.
QueueGet(queue) == Head(queue)
QueueRest(queue) == Tail(queue)

\* A sender whose write goes out whatever the state of its connection.
SenderOnAnyTransport(s) ==
    /\ Running
    /\ senderPc[s] = "waiting"
    /\ send_queue[s] # << >>
    /\ send_queue' = [send_queue EXCEPT ![s] = QueueRest(@)]
    /\ sent' = [sent EXCEPT ![s] =
                    Append(@, ReqVolumeChangeMsg(QueueGet(send_queue[s])))]
    /\ UNCHANGED << platform, localVolume, mainVars, connVars, taskVars,
                    watchVars, recvVars, lastDelay, failsInRow, lastCause,
                    envObs >>

\* queue.get returns an item and ws.send is called with it, in one step: a
\* send on a closed connection raises ConnectionClosed and ends the loop.
Sender(s) ==
    /\ Running
    /\ senderPc[s] = "waiting"
    /\ send_queue[s] # << >>
    /\ LET volume == QueueGet(send_queue[s]) IN
          /\ send_queue' = [send_queue EXCEPT ![s] = QueueRest(@)]
          /\ IF ws[s] = "open"
             THEN /\ sent' = [sent EXCEPT ![s] = Append(@, ReqVolumeChangeMsg(volume))]
                  /\ UNCHANGED senderPc
             ELSE /\ senderPc' = [senderPc EXCEPT ![s] = "done"]
                  /\ UNCHANGED sent
    /\ UNCHANGED << platform, localVolume, mainVars, connVars, receiverPc,
                    watcherPc, watchVars, recvVars, lastDelay, failsInRow,
                    lastCause, envObs >>

\* --------------------------------------------------------------- receiver

\* A range check that forgets the upper bound.
ReceiverAcceptsNoUpperBound(volume) == VOLUME_MIN <= volume

\* A range check that excludes VOLUME_MAX itself.
ReceiverAcceptsBelowMax(volume) == VOLUME_MIN <= volume /\ volume < VOLUME_MAX

\* receiver: "if not (VOLUME_MIN <= volume <= VOLUME_MAX): ... continue"
ReceiverAccepts(volume) == InRange(volume)

\* set_volume(volume): how the call can end.
SetVolumeResults(volume) ==
    IF ~ InRange(volume) THEN {"ValueError"}
    ELSE IF platform = "linux" THEN {"ok", "VolumeError"}
    ELSE {"VolumeError"}

\* await set_volume(volume), with the exception handlers around it.
CallSetVolume(volume) ==
    \E r \in SetVolumeResults(volume) :
        /\ setCalls' = Append(setCalls, [volume |-> volume, result |-> r])
        /\ localVolume' = IF r = "ok" THEN volume ELSE localVolume

\* A receiver that reads the "clients" field of every object, whatever its
\* type.
ClientCountAnyType(message, count) ==
    IF message.json = "object" THEN Get(message, "clients", 0) ELSE count

\* client_count after a message: a "clients" event sets it.
ClientCountAfter(message, count) ==
    IF message.json = "object" /\ Get(message, "type", "None") = "clients"
    THEN Get(message, "clients", 0)
    ELSE count

\* The body of "async for message in ws" for one message.
ReceiverFrame(s) ==
    /\ Running
    /\ receiverPc[s] = "running"
    /\ inbox # << >>
    /\ LET message == Head(inbox)
           message_type == Get(message, "type", "None")
       IN
          /\ inbox' = Tail(inbox)
          /\ received' = [received EXCEPT ![s] = Append(@, message)]
          /\ client_count' = [client_count EXCEPT ![s] = ClientCountAfter(message, @)]
          /\ IF message.json = "object" /\ message_type = "volume"
                 /\ ReceiverAccepts(Get(message, "volume", 0))
             THEN CallSetVolume(Get(message, "volume", 0))
             ELSE UNCHANGED << setCalls, localVolume >>
    /\ UNCHANGED << platform, mainVars, nConn, ws, taskVars, watchVars,
                    send_queue, sent, lastDelay, failsInRow, lastCause,
                    envObs >>

\* The inbound stream ends: the iteration stops on a normal closure and
\* raises ConnectionClosedError on an abnormal one.
ReceiverEnd(s) ==
    /\ Running
    /\ receiverPc[s] = "running"
    /\ inbox = << >>
    /\ ws[s] # "open"
    /\ receiverPc' = [receiverPc EXCEPT ![s] =
                         IF ws[s] = "closedOK" THEN "done" ELSE "raised"]
    /\ UNCHANGED << platform, localVolume, mainVars, connVars, senderPc,
                    watcherPc, watchVars, recvVars, send_queue, sent,
                    lastDelay, failsInRow, lastCause, envObs >>

\* ------------------------------------------------------------ environment

\* The relay sends a frame on the open connection.
RelaySend(f) ==
    /\ Running
    /\ nConn >= 1
    /\ ws[nConn] = "open"
    /\ nFrames < MaxFrames
    /\ nFrames' = nFrames + 1
    /\ inbox' = Append(inbox, f)
    /\ UNCHANGED << platform, localVolume, mainVars, nConn, ws, taskVars,
                    watchVars, recvVars, send_queue, sent, lastDelay,
                    failsInRow, lastCause, nChanges >>

\* The connection closes, normally (close code 1000) or not.
RelayClose(how) ==
    /\ Running
    /\ nConn >= 1
    /\ ws[nConn] = "open"
    /\ ws' = [ws EXCEPT ![nConn] = how]
    /\ UNCHANGED << platform, localVolume, mainVars, nConn, inbox, taskVars,
                    watchVars, recvVars, send_queue, sent, lastDelay,
                    failsInRow, lastCause, envObs >>

\* The user changes the volume on the host.
UserSetsVolume(v) ==
    /\ Running
    /\ platform = "linux"
    /\ nChanges < MaxChanges
    /\ v # localVolume
    /\ nChanges' = nChanges + 1
    /\ localVolume' = v
    /\ UNCHANGED << platform, mainVars, connVars, taskVars, watchVars,
                    recvVars, send_queue, sent, lastDelay, failsInRow,
                    lastCause, nFrames >>

\* The relay refuses a connection.
ConnectFails ==
    \/ ConnectInvalidURI
    \/ \E status_code \in StatusCodes : ConnectInvalidStatus(status_code)
    \/ ConnectError

\* The supervisor's environment: the relay accepts or refuses connections
\* and closes them, and the user may interrupt; no frame arrives and the
\* local volume stays as it is, so that no sender and no receiver has a
\* message to handle.
NextSupervisor ==
    \/ MainLoop
    \/ MainSleep
    \/ ConnectOk
    \/ MainPrime
    \/ SessionEnd
    \/ \E s \in Sessions : WatcherStart(s)
    \/ \E s \in Sessions : WatcherPoll(s)
    \/ \E s \in Sessions : ReceiverEnd(s)
    \/ ConnectFails
    \/ \E how \in {"closedOK", "closedError"} : RelayClose(how)
    \/ Interrupt

\* The uplink's environment: the relay accepts every connection and closes
\* it at any time, and the user changes the volume; no frame arrives.
NextUplink ==
    \/ MainLoop
    \/ ConnectOk
    \/ MainPrime
    \/ SessionEnd
    \/ \E s \in Sessions : WatcherStart(s)
    \/ \E s \in Sessions : WatcherPoll(s)
    \/ \E s \in Sessions : Sender(s)
    \/ \E s \in Sessions : ReceiverEnd(s)
    \/ \E how \in {"closedOK", "closedError"} : RelayClose(how)
    \/ \E v \in UserVolumes : UserSetsVolume(v)

\* The downlink's environment: the relay accepts every connection, sends
\* frames and closes the connection at any time; the user leaves the volume
\* alone.
NextDownlink ==
    \/ MainLoop
    \/ ConnectOk
    \/ MainPrime
    \/ SessionEnd
    \/ \E s \in Sessions : WatcherStart(s)
    \/ \E s \in Sessions : WatcherPoll(s)
    \/ \E s \in Sessions : Sender(s)
    \/ \E s \in Sessions : ReceiverFrame(s)
    \/ \E s \in Sessions : ReceiverEnd(s)
    \/ \E f \in Frames : RelaySend(f)
    \/ \E how \in {"closedOK", "closedError"} : RelayClose(how)

\* Every step of the program and of its environment.  The three relations
\* above are parts of this one, so a behaviour of the specifications below is
\* a behaviour of Spec.
Next ==
    \/ NextSupervisor
    \/ NextUplink
    \/ NextDownlink

Spec == Init /\ [][Next]_vars
SpecSupervisor == Init /\ [][NextSupervisor]_vars
SpecUplink == Init /\ [][NextUplink]_vars
SpecDownlink == Init /\ [][NextDownlink]_vars

\* ------------------------------------------------------------- supervisor

\* Session s was left by main's ConnectionClosed handler.
Dropped(s) ==
    /\ s <= nConn
    /\ ws[s] \in {"closedOK", "closedError"}
    /\ receiverPc[s] \in {"none", "raised"}
    /\ s < nConn \/ mainPc \in {"loop", "sleep", "connect"}

Drops == Cardinality({s \in Sessions : Dropped(s)})

\* The delays main sleeps before attempts 1..5.
BackoffSchedule == << 0, 10, 20, 30, 30 >>

\* C1, as stated: when connections succeed and each session ends with a
\* transport error, the delay slept before the n-th retry is
\* min(10*(n-1), 30) and the n = max_retries-th such failure is fatal.
C1_DropsExhaustRetries ==
    /\ (mainPc = "connect" /\ lastCause = "closed")
          => lastDelay = Min(10 * (Drops - 1), 30)
    /\ (Drops >= max_retries /\ lastCause = "closed")
          => (mainPc = "exit" /\ exitCode = 1)

\* C1, amended: a successful connection resets connection_attempts to 0, so
\* a session that ends with a transport error is never fatal and is followed
\* by attempt 1, before which main sleeps nothing, however many sessions
\* were dropped before.
C1_DropNeverFatal ==
    /\ mainPc \in {"prime", "session"} => connection_attempts = 0
    /\ lastCause = "closed" =>
          /\ mainPc \in {"loop", "connect", "exit"}
          /\ exitCode # 1
          /\ mainPc = "loop" => connection_attempts = 0
          /\ mainPc = "connect" => connection_attempts = 1 /\ lastDelay = 0

\* Two sessions in a row were dropped and main is about to connect again.
C1_Witness ==
    /\ nConn = 2
    /\ Drops = 2
    /\ receiverPc[1] = "raised"
    /\ receiverPc[2] = "raised"
    /\ lastCause = "closed"
    /\ mainPc = "connect"

\* C2: consecutive failed connection attempts each consume one attempt:
\* attempt n is preceded by a sleep of BackoffSchedule[n] seconds (0, 10, 20,
\* 30, 30), and the 5th failure in a row ends the process with status 1, so
\* that no 6th attempt is made.
C2_FailedAttemptsAreCounted ==
    /\ failsInRow <= max_retries
    /\ mainPc \in {"sleep", "connect"} =>
          /\ failsInRow < max_retries
          /\ connection_attempts = failsInRow + 1
    /\ mainPc = "connect" => lastDelay = BackoffSchedule[failsInRow + 1]
    /\ failsInRow = max_retries => (mainPc = "exit" /\ exitCode = 1)
    /\ (exitCode = 1 /\ lastCause \in {"capacity", "network"})
          => failsInRow = max_retries

\* Five attempts in a row failed, the last on a 503 after a 30 s sleep, and
\* the process has exited with status 1 without ever having connected.
C2_Witness ==
    /\ nConn = 0
    /\ failsInRow = max_retries
    /\ connection_attempts = max_retries
    /\ lastCause = "capacity"
    /\ lastDelay = 30
    /\ mainPc = "exit"
    /\ exitCode = 1

\* C3: an attempt rejected for a non-retryable cause (InvalidURI, or an HTTP
\* 4xx status) ends the process at once with a non-zero status, whatever
\* connection_attempts is.
C3_NonRetryableIsFatal ==
    lastCause \in {"InvalidURI", "rejected4xx"}
        => (mainPc = "exit" /\ exitCode = 1)

\* ----------------------------------------------------------------- uplink

\* The successful reads among the results of get_volume.
RECURSIVE OkReads(_)
OkReads(results) ==
    IF results = << >> THEN << >>
    ELSE IF Head(results) = VolumeErr THEN OkReads(Tail(results))
    ELSE << Head(results) >> \o OkReads(Tail(results))

\* The values at which a sequence changes: every element that differs from
\* the one before it.
RECURSIVE ChangesOf(_)
ChangesOf(values) ==
    IF Len(values) < 2 THEN << >>
    ELSE LET n == Len(values) IN
         ChangesOf(SubSeq(values, 1, n - 1))
            \o (IF values[n] # values[n - 1] THEN << values[n] >> ELSE << >>)

IsPrefix(a, b) == Len(a) <= Len(b) /\ a = SubSeq(b, 1, Len(a))

\* C5: the intents a watcher has put on its queue are exactly the values at
\* which the sequence of its successful reads changes, in order, and its
\* last_volume is its latest successful read: an identical read and a failed
\* read put nothing, and a failed read leaves last_volume alone.
C5_WatcherEmitsChanges ==
    \A s \in Sessions :
        /\ watcherPc[s] = "polling" =>
              /\ put[s] = ChangesOf(OkReads(reads[s]))
              /\ last_volume[s] = OkReads(reads[s])[Len(OkReads(reads[s]))]
        /\ watcherPc[s] # "polling" => put[s] = << >>

\* A watcher has read 30, then failed, then read 45, and has put 45 alone.
C5_Witness ==
    \E s \in Sessions :
        /\ reads[s] = << 30, VolumeErr, 45 >>
        /\ put[s] = << 45 >>
        /\ last_volume[s] = 45

\* C8: the reqVolumeChange messages sent on a connection are, in order and
\* without repetition, the first intents its watcher put on the queue.
C8_SentInQueueOrder ==
    \A s \in Sessions : IsPrefix(Reqs(sent[s]), put[s])

\* Two intents were queued; the older one has been sent and the newer one is
\* still on the queue.
C8_Witness ==
    \E s \in Sessions :
        /\ put[s] = << 45, 150 >>
        /\ Reqs(sent[s]) = << 45 >>
        /\ send_queue[s] = << 150 >>

\* C9: no intent is dropped: every intent a watcher has put on a queue is
\* still on that queue or has been sent to the relay as reqVolumeChange.
C9_NoIntentDropped ==
    \A s \in Sessions : put[s] = Reqs(sent[s]) \o send_queue[s]

\* C10: every reqVolumeChange the client has transmitted carries a volume in
\* [0, 100].
C10_SentVolumesInRange ==
    \A s \in Sessions : \A i \in DOMAIN sent[s] :
        sent[s][i].action = "reqVolumeChange"
            => (0 <= sent[s][i].volume /\ sent[s][i].volume <= 100)

\* --------------------------------------------------------------- downlink

IsVolumeEvent(message) ==
    message.json = "object" /\ "type" \in DOMAIN message /\ message.type = "volume"

IsClientsEvent(message) ==
    message.json = "object" /\ "type" \in DOMAIN message /\ message.type = "clients"

\* The calls of set_volume a sequence of frames is to cause: one per volume
\* event whose value is in [0, 100]; an event without the field counts as 0.
RECURSIVE CallsFor(_)
CallsFor(frames) ==
    IF frames = << >> THEN << >>
    ELSE LET m == Head(frames) IN
         (IF ~ IsVolumeEvent(m) THEN << >>
          ELSE IF "volume" \notin DOMAIN m THEN << 0 >>
          ELSE IF 0 <= m.volume /\ m.volume <= 100 THEN << m.volume >>
          ELSE << >>)
         \o CallsFor(Tail(frames))

RECURSIVE AllCallsFrom(_)
AllCallsFrom(s) ==
    IF s > MaxSessions THEN << >>
    ELSE CallsFor(received[s]) \o AllCallsFrom(s + 1)

\* C4: set_volume is never called with a volume outside [0, 100], and a
\* receiver stops only when its connection has closed and every frame that
\* arrived on it has been handled.
C4_InvalidVolumeNeverApplied ==
    /\ \A i \in DOMAIN setCalls :
          0 <= setCalls[i].volume /\ setCalls[i].volume <= 100
    /\ \A s \in Sessions :
          receiverPc[s] \in {"done", "raised"} =>
              /\ ws[s] # "open"
              /\ s = nConn => inbox = << >>

\* A receiver took a volume event of 101 and then one of 42, and set_volume
\* was called once, with 42.
C4_Witness ==
    \E s \in Sessions :
        /\ received[s] = << [json |-> "object", type |-> "volume", volume |-> 101],
                            [json |-> "object", type |-> "volume", volume |-> 42] >>
        /\ Len(setCalls) = 1
        /\ setCalls[1].volume = 42

\* C6: the calls of set_volume are, in order, one call per volume event
\* received with a value in [0, 100]: none skipped, merged, reordered or
\* repeated.
C6_ValidVolumesAppliedInOrder ==
    [i \in DOMAIN setCalls |-> setCalls[i].volume] = AllCallsFrom(1)

\* Volume events of 100 and 42 were received in this order on a connection
\* and set_volume was called with 100 and then with 42.
C6_Witness ==
    /\ received[1] = << [json |-> "object", type |-> "volume", volume |-> 100],
                        [json |-> "object", type |-> "volume", volume |-> 42] >>
    /\ Len(setCalls) = 2
    /\ setCalls[1].volume = 100
    /\ setCalls[2].volume = 42

\* C7: handling a frame never ends the receiver; a clients event with count
\* c sets the peer count to c; and a frame that is no JSON, no object or of
\* an unknown type changes neither the peer count nor the local volume.
C7_PerMessageFailuresContained ==
    [][ \A s \in Sessions :
          received'[s] # received[s] =>
             LET m == received'[s][Len(received'[s])] IN
                /\ receiverPc'[s] = "running"
                /\ (IsClientsEvent(m) /\ "clients" \in DOMAIN m)
                      => client_count'[s] = m.clients
                /\ (~ IsClientsEvent(m) /\ ~ IsVolumeEvent(m))
                      => /\ client_count' = client_count
                         /\ localVolume' = localVolume
                         /\ setCalls' = setCalls
                /\ IsVolumeEvent(m) => client_count' = client_count ]_vars

\* A receiver took a clients event of 3 and then a ping: the peer count is 3
\* and the receiver is still running.
C7_Witness ==
    \E s \in Sessions :
        /\ received[s] = << [json |-> "object", type |-> "clients", clients |-> 3],
                            [json |-> "object", type |-> "ping"] >>
        /\ client_count[s] = 3
        /\ receiverPc[s] = "running"

\* ------------------------------------------------------ platform and exit

\* C11: on an unsupported platform the process exits with a non-zero status
\* at startup instead of running a session: main never awaits a session
\* there, and no sender, receiver or watcher task is ever created.
C11_UnsupportedPlatformIsFatal ==
    platform # "linux" =>
        /\ mainPc # "session"
        /\ \A s \in Sessions :
              /\ senderPc[s] = "none"
              /\ receiverPc[s] = "none"
              /\ watcherPc[s] = "none"

\* C12: the process ends only by a fatal classification or by an interrupt.
\* A step that ends it with status 0 is the interrupt (it decides nothing
\* about the connection: counter, cause, connections and tasks are as they
\* were); a step that ends it with status 1 handles an invalid URL or a
\* failure with connection_attempts >= max_retries; main is never left any
\* other way (the process is over exactly when an exit status is set); and a
\* session left while attempts remain takes main back to the head of the
\* loop, whose next step starts a connection attempt.
C12_ExitOnlyWhenFatalOrInterrupted ==
    [][ /\ exitCode' \in {None, 0, 1}
        /\ (mainPc' = "exit") <=> (exitCode' # None)
        /\ (mainPc # "exit" /\ mainPc' = "exit") =>
              \/ /\ exitCode' = 0
                 /\ UNCHANGED << connection_attempts, lastCause, failsInRow,
                                 connVars, taskVars >>
              \/ /\ exitCode' = 1
                 /\ lastCause' = "InvalidURI"
                       \/ connection_attempts >= max_retries
        /\ (mainPc \in {"prime", "session"} /\ mainPc' # mainPc
               /\ connection_attempts < max_retries) =>
              \/ mainPc' \in {"session", "loop"}
              \/ exitCode' = 0
        /\ (mainPc = "loop" /\ mainPc' # mainPc
               /\ connection_attempts < max_retries) =>
              \/ /\ mainPc' \in {"sleep", "connect"}
                 /\ connection_attempts' = connection_attempts + 1
              \/ exitCode' = 0 ]_vars

\* A session was dropped, main went on to connect again, and five refused
\* attempts later the process has exited with status 1.
C12_Witness ==
    /\ nConn = 1
    /\ receiverPc[1] = "raised"
    /\ failsInRow = max_retries
    /\ connection_attempts = max_retries
    /\ mainPc = "exit"
    /\ exitCode = 1

\* ------------------------------------------------------- tasks and queues

\* The volume_watcher tasks created so far, and those that have not returned.
WatchersSpawned == {s \in Sessions : watcherPc[s] # "none"}
WatchersAlive == {s \in Sessions : watcherPc[s] \in {"start", "polling"}}

\* C13: the watcher is a process-lifetime singleton: one volume_watcher task
\* is spawned in a run, so that at most one exists at any moment, however
\* many connections are established.
C13_WatcherIsSingleton ==
    /\ Cardinality(WatchersSpawned) <= 1
    /\ Cardinality(WatchersAlive) <= 1

\* C14: the first terminal event ends the session: once receiver's inbound
\* stream has ended, by return or by exception, main has nothing left to
\* wait for and its next step leaves the session, whatever sender is doing
\* (no later volume change is needed to wake sender first).
C14_ReceiverEndEndsSession ==
    (mainPc = "session" /\ receiverPc[nConn] \in {"done", "raised"})
        => ENABLED SessionEnd

\* The sessions main has left: every connection but the latest, and the
\* latest one too when main is outside its async-with block.
LeftSessions ==
    {s \in Sessions : s < nConn \/ (s = nConn /\ mainPc \notin {"prime", "session"})}

\* C15: once main has left a session, no sender and no receiver of that
\* session is still running or suspended: no earlier session's sender is
\* blocked on its queue, from where it could dequeue an intent later.
C15_NoTaskOutlivesItsSession ==
    \A s \in LeftSessions :
        /\ senderPc[s] # "waiting"
        /\ receiverPc[s] # "running"

\* C16: on a supported platform, where a read fails now and then, a failed
\* read never terminates volume_watcher, the first read included: a watcher
\* that was started never returns, and after a failed read it is polling.
C16_FailedReadNeverEndsWatcher ==
    platform = "linux" =>
        \A s \in Sessions :
            /\ watcherPc[s] # "returned"
            /\ (reads[s] # << >> /\ reads[s][Len(reads[s])] = VolumeErr)
                  => watcherPc[s] = "polling"

\* ---------------------------------------------------------------- priming

\* C17: every established connection is primed first, and once: the first
\* message written to it is getVolume and the second is
\* getConnectedClientsCount; every later message is a reqVolumeChange; and
\* its sender, receiver and watcher exist, and a frame of it has been
\* processed, only when both priming messages have been written.
C17_PrimedBeforeAnythingElse ==
    \A s \in Sessions :
        /\ (ws[s] = "none") <=> (sent[s] = << >>)
        /\ \A i \in 1..Len(sent[s]) :
              sent[s][i].action = CASE i = 1 -> "getVolume"
                                    [] i = 2 -> "getConnectedClientsCount"
                                    [] OTHER -> "reqVolumeChange"
        /\ (senderPc[s] # "none" \/ receiverPc[s] # "none"
               \/ watcherPc[s] # "none" \/ received[s] # << >>)
              => Len(sent[s]) >= 2

\* The second connection of a run was primed, took a frame and sent a
\* reqVolumeChange after its two priming messages.
C17_Witness ==
    /\ nConn = 2
    /\ Len(sent[1]) >= 2
    /\ Len(sent[2]) = 3
    /\ sent[2][1] = [action |-> "getVolume"]
    /\ sent[2][2] = [action |-> "getConnectedClientsCount"]
    /\ sent[2][3].action = "reqVolumeChange"
    /\ received[2] # << >>

\* ------------------------------------------------------------------- echo

\* C18: a volume applied from the relay is echoed back.  A set_volume call
\* leaves every watcher's last_volume alone and, when it succeeds, makes the
\* host's volume the value applied; a poll that reads a value differing from
\* the watcher's last_volume puts that value on the watcher's queue, whoever
\* set it; and sender writes the value it takes from the queue to the open
\* connection as a reqVolumeChange.
C18_AppliedVolumeIsEchoed ==
    [][ /\ setCalls' # setCalls =>
              /\ last_volume' = last_volume
              /\ LET call == setCalls'[Len(setCalls')] IN
                    call.result = "ok" => localVolume' = call.volume
        /\ \A s \in Sessions :
              (watcherPc[s] = "polling" /\ reads'[s] # reads[s]) =>
                  LET r == reads'[s][Len(reads'[s])] IN
                     (r # VolumeErr /\ r # last_volume[s]) =>
                         /\ r = localVolume
                         /\ send_queue'[s] = Append(send_queue[s], r)
                         /\ last_volume'[s] = r
        /\ \A s \in Sessions :
              (send_queue[s] # << >> /\ send_queue'[s] = Tail(send_queue[s])
                  /\ ws[s] = "open") =>
                  sent'[s] = Append(sent[s], [action |-> "reqVolumeChange",
                                              volume |-> Head(send_queue[s])]) ]_vars

\* The relay's volume event of 42 was applied, nobody else changed the
\* volume, and the client has sent reqVolumeChange 42 back on the same
\* connection.
C18_Witness ==
    \E s \in Sessions :
        /\ nChanges = 0
        /\ received[s] = << [json |-> "object", type |-> "volume", volume |-> 42] >>
        /\ setCalls = << [volume |-> 42, result |-> "ok"] >>
        /\ put[s] = << 42 >>
        /\ sent[s] = << [action |-> "getVolume"],
                        [action |-> "getConnectedClientsCount"],
                        [action |-> "reqVolumeChange", volume |-> 42] >>

\* --------------------------------------------------------- missing fields

\* C19: a volume event without a "volume" field is not discarded: handling
\* it calls set_volume once, with 0; and a clients event without a "clients"
\* field sets the receiver's peer count to 0.
C19_MissingFieldDefaultsToZero ==
    [][ \A s \in Sessions :
          received'[s] # received[s] =>
             LET m == received'[s][Len(received'[s])] IN
                /\ (IsVolumeEvent(m) /\ "volume" \notin DOMAIN m) =>
                      /\ Len(setCalls') = Len(setCalls) + 1
                      /\ setCalls'[Len(setCalls')].volume = 0
                      /\ setCalls'[Len(setCalls')].result \in {"ok", "VolumeError"}
                /\ (IsClientsEvent(m) /\ "clients" \notin DOMAIN m) =>
                      client_count'[s] = 0 ]_vars

\* A receiver took a volume event and a clients event, both without their
\* field: the host's volume was set to 0 and the peer count is 0.
C19_Witness ==
    \E s \in Sessions :
        /\ received[s] = << [json |-> "object", type |-> "volume"],
                            [json |-> "object", type |-> "clients"] >>
        /\ setCalls = << [volume |-> 0, result |-> "ok"] >>
        /\ localVolume = 0
        /\ client_count[s] = 0

\* ------------------------------------------------------------ connections

\* The connections that are open.
OpenConnections == {s \in Sessions : ws[s] = "open"}

\* C20: at most one relay connection is open at any time, and it is the
\* latest one established; main is at the head of the loop, asleep or
\* connecting only when no connection is open; and every message the client
\* transmits is written to the latest connection, which is open.
C20_OneConnectionAtATime ==
    /\ [](/\ Cardinality(OpenConnections) <= 1
          /\ OpenConnections \subseteq {nConn}
          /\ mainPc \in {"loop", "sleep", "connect"} => OpenConnections = {})
    /\ [][ \A s \in Sessions :
              sent'[s] # sent[s] => (s = nConn' /\ ws'[s] = "open") ]_vars

\* After a reconnection the first connection is closed, its sender is still
\* waiting, and a reqVolumeChange has been sent on each connection in turn.
C20_Witness ==
    /\ nConn = 2
    /\ ws[1] \in {"closedOK", "closedError"}
    /\ ws[2] = "open"
    /\ senderPc[1] = "waiting"
    /\ Reqs(sent[1]) # << >>
    /\ Reqs(sent[2]) # << >>

====
